---- MODULE Spec2Model ----
(***************************************************************************)
(* Model of golem/task/docker_job.py: the DockerJob lifecycle driver and   *)
(* the part of the Docker daemon it talks to.                              *)
(*                                                                         *)
(* The daemon is an external collaborator.  It is modelled by what the     *)
(* docker-py client calls of the source observably do:                     *)
(*   create_container  adds a container in status "created" under a fresh  *)
(*                     identifier, or fails;                               *)
(*   start             created -> running;                                 *)
(*   a running container may finish on its own at any moment;              *)
(*   kill              running -> exited(137); the daemon rejects a kill   *)
(*                     of a container that is not running (APIError);      *)
(*   remove_container(force=True)  deletes the container;                  *)
(*   inspect_container reports the status, NotFound for an unknown id,     *)
(*                     NullResource for an empty id;                       *)
(*   wait(timeout)     returns the exit code, or raises ReadTimeout when   *)
(*                     the timeout elapses first.                          *)
(* Communication failures of the daemon are not modelled, except for the   *)
(* creation request.  The script and parameter files written by _prepare   *)
(* (lines 83-94) do not influence the container lifecycle and are left out.*)
(***************************************************************************)
EXTENDS Integers, Sequences, FiniteSets, TLC

\* Bound: number of identifiers the daemon may hand out in one behaviour.
MaxContainers == 2

\* Bound: largest exit code a job script finishes with on its own.
MaxExitCode == 1
ExitCodes == 0 .. MaxExitCode
\* Exit code the daemon records for a container ended by SIGKILL.
KILL_EXIT == 137

\* Host directories and image names a job may be constructed with.
Dirs == {"/host/res", "/host/out"}

\* Python None for a string argument (id, tag).
NoneStr == "<None>"
Falsy(x) == x \in {NoneStr, ""}

\* DockerImage.__init__ (lines 12-13): tag defaults to "latest", name is
\* "{}:{}".format(repository, tag).
image_tag(tag) == IF Falsy(tag) THEN "latest" ELSE tag
image_name(repository, tag) == repository \o ":" \o image_tag(tag)

JobImages == {image_name("golem/base", NoneStr)}

STATE_NEW == "new"
STATE_CREATED == "created"
STATE_RUNNING == "running"
STATE_EXITED == "exited"
STATE_STOPPED == "stopped"
STATE_KILLED == "killed"
STATE_REMOVED == "removed"

States ==
  {STATE_NEW, STATE_CREATED, STATE_RUNNING, STATE_EXITED, STATE_STOPPED,
   STATE_KILLED, STATE_REMOVED}

\* Exceptions raised by the client library or by the driver's assert.
Errors == {"NullResource", "NotFound", "APIError", "ReadTimeout", "AssertionError"}

\* Python None for the container handle; a handle is the 1-tuple <<Id>>
\* standing for the dict {"Id": ...} returned by create_container.
None == <<>>
\* Python None / empty string for a container identifier.
NoId == 0

VARIABLES
  container,     \* self.container
  container_id,  \* self.container_id
  state,         \* self.state (the cached lifecycle state)
  rt,            \* daemon: identifier -> [Status, ExitCode] of existing containers
  nextId,        \* daemon: next identifier to hand out
  reqs,          \* requests the last operation sent to the daemon, in order
  lastOp,        \* name of the last operation
  ret,           \* what the last operation returned or raised
  pre,           \* the driver's fields when the last operation was called
  scope,         \* position of the caller's with-statement
  job,           \* self.image.name, self.resource_dir, self.output_dir
  img            \* daemon image store and the last DockerImage call

vars ==
  <<container, container_id, state, rt, nextId, reqs, lastOp, ret, pre, scope,
    job, img>>

----------------------------------------------------------------------------
\* Return values.
RetNone == [kind |-> "none", status |-> "", code |-> 0]
RetLogs == [kind |-> "logs", status |-> "", code |-> 0]
RetStatus(s) == [kind |-> "status", status |-> s, code |-> 0]
RetResult(s) == [kind |-> "result", status |-> s, code |-> 0]
RetCode(n) == [kind |-> "code", status |-> "", code |-> n]
RetRaised(e) == [kind |-> "raised", status |-> e, code |-> 0]

\* One request to the daemon: the call, the identifier it names, the cached
\* state at the moment it is sent, and the daemon's answer.
NoArgs ==
  [image |-> "", network_disabled |-> FALSE, volumes |-> {},
   binds |-> [h \in {} |-> [bind |-> "", mode |-> ""]]]
Req(op, cid, st, res) ==
  [op |-> op, id |-> cid, st |-> st, res |-> res, args |-> NoArgs]

Truthy(c) == c # None

Driver == [container |-> container, container_id |-> container_id, state |-> state]

\* Identifiers handed out so far, and those whose container was removed.
Created == 1 .. (nextId - 1)
Removed == Created \ DOMAIN rt

----------------------------------------------------------------------------
\* The daemon.

inspect_container(cid) ==
  IF cid = NoId THEN "NullResource"
  ELSE IF cid \notin DOMAIN rt THEN "NotFound"
  ELSE rt[cid].Status

SetStatus(r, cid, s, c) == [r EXCEPT ![cid] = [Status |-> s, ExitCode |-> c]]

remove_container(r, cid) == [i \in DOMAIN r \ {cid} |-> r[i]]

create_container(r, cid) ==
  [i \in DOMAIN r \cup {cid} |->
     IF i = cid THEN [Status |-> STATE_CREATED, ExitCode |-> 0] ELSE r[i]]

----------------------------------------------------------------------------
\* DockerJob.get_status (lines 171-176).
get_status_cached == state
get_status ==
  IF Truthy(container) THEN inspect_container(container_id) ELSE state

get_status_reqs ==
  IF Truthy(container) /\ container_id # NoId
  THEN <<Req("inspect", container_id, state, inspect_container(container_id))>>
  ELSE <<>>

\* Result of a handler: the driver's fields, the daemon, the requests, the
\* return value.
Out(c, cid, st, r, n, q, v) ==
  [container |-> c, container_id |-> cid, state |-> st, rt |-> r,
   nextId |-> n, reqs |-> q, ret |-> v]

Raise(e, q) == Out(container, container_id, state, rt, nextId, q, RetRaised(e))

Apply(o, name) ==
  /\ container' = o.container
  /\ container_id' = o.container_id
  /\ state' = o.state
  /\ rt' = o.rt
  /\ nextId' = o.nextId
  /\ reqs' = o.reqs
  /\ ret' = o.ret
  /\ lastOp' = name
  /\ pre' = Driver
  /\ UNCHANGED <<job, img>>

----------------------------------------------------------------------------
\* DockerJob._prepare (lines 96-120).  outcome is the daemon's answer to the
\* creation request: "ok" (container created, identifier returned), "noid"
\* (container created, no identifier in the answer), "error" (request failed).
RESOURCES_DIR == "/golem/resources/"
OUTPUT_DIR == "/golem/output/"

\* lines 98-109: the binds dict handed to create_host_config.  A dict holds
\* one entry per key, the entry written last.
host_binds ==
  [h \in {job.resource_dir, job.output_dir} |->
     IF h = job.output_dir THEN [bind |-> OUTPUT_DIR, mode |-> "rw"]
     ELSE [bind |-> RESOURCES_DIR, mode |-> "ro"]]

\* lines 111-117: the arguments of the creation request.
create_args ==
  [image |-> job.image, network_disabled |-> TRUE,
   volumes |-> {RESOURCES_DIR, OUTPUT_DIR}, binds |-> host_binds]

_prepare(outcome) ==
  LET q == <<[Req("create", IF outcome = "error" THEN NoId ELSE nextId, state,
                  IF outcome = "error" THEN "APIError" ELSE "ok")
              EXCEPT !.args = create_args]>>
  IN IF outcome = "error" THEN Raise("APIError", q)
     ELSE LET r == create_container(rt, nextId)
              cid == IF outcome = "ok" THEN nextId ELSE NoId
          IN Out(<<cid>>, cid, state, r, nextId + 1, q,
                 IF cid # NoId THEN RetNone ELSE RetRaised("AssertionError"))

\* lines 126-128: the condition under which the container is killed, and the
\* cached state recorded after the kill.
KillGuardAlways(s) == TRUE
KillGuard(s) == s = STATE_RUNNING
StateOnKill == STATE_KILLED

\* lines 130-132: the driver's fields after the removal request.
AfterRemoveKeepsId(c, cid, st) ==
  [container |-> None, container_id |-> cid, state |-> STATE_REMOVED]
AfterRemoveKeepsState(c, cid, st) ==
  [container |-> None, container_id |-> NoId, state |-> st]
AfterRemoveKeepsHandle(c, cid, st) ==
  [container |-> c, container_id |-> cid, state |-> STATE_REMOVED]
AfterRemove(c, cid, st) ==
  [container |-> None, container_id |-> NoId, state |-> STATE_REMOVED]

\* DockerJob._cleanup (lines 122-132).  exits: the container finishes on its
\* own between the status query and the kill request, with exit code `code`.
_cleanup(exits, code) ==
  IF ~Truthy(container)
  THEN Out(container, container_id, state, rt, nextId, <<>>, RetNone)
  ELSE
    LET s == get_status
        q0 == get_status_reqs
    IN IF s \in Errors THEN Raise(s, q0)
       ELSE
         LET own == s = STATE_RUNNING /\ exits
             r1 == IF own THEN SetStatus(rt, container_id, STATE_EXITED, code) ELSE rt
             kills == KillGuard(s)
             killOk == r1[container_id].Status = STATE_RUNNING
         IN IF kills /\ ~killOk
            THEN Out(container, container_id, state, r1, nextId,
                     q0 \o <<Req("kill", container_id, state, "APIError")>>,
                     RetRaised("APIError"))
            ELSE
              LET r2 == IF kills THEN SetStatus(r1, container_id, STATE_EXITED, KILL_EXIT)
                        ELSE r1
                  st1 == IF kills THEN StateOnKill ELSE state
                  q1 == IF kills THEN q0 \o <<Req("kill", container_id, state, "ok")>>
                        ELSE q0
                  q2 == q1 \o <<Req("remove", container_id, st1, "ok")>>
                  d == AfterRemove(container, container_id, st1)
              IN Out(d.container, d.container_id, d.state,
                     remove_container(r2, container_id), nextId, q2, RetNone)

\* line 148: the condition under which start() acts.
StartGuardNotRunning(s) == s \in {STATE_CREATED, STATE_EXITED}
StartGuard(s) == s = STATE_CREATED

\* line 152: the cached state recorded from the re-queried status.
StateAfterStartAssumed(status) == STATE_RUNNING
StateAfterStart(status) == status

\* DockerJob.start (lines 147-154).  fin: the container has already finished
\* (with exit code `code`) when its status is queried again after the start.
start(fin, code) ==
  LET s == get_status
      q0 == get_status_reqs
  IN IF s \in Errors THEN Raise(s, q0)
     ELSE IF StartGuard(s)
     THEN LET now == IF fin THEN STATE_EXITED ELSE STATE_RUNNING
              r == SetStatus(rt, container_id, now, IF fin THEN code ELSE 0)
          IN Out(container, container_id, StateAfterStart(now), r, nextId,
                 q0 \o <<Req("start", container_id, state, "ok"),
                         Req("inspect", container_id, state, now)>>,
                 RetResult(now))
     ELSE Out(container, container_id, state, rt, nextId, q0, RetNone)

\* line 161: the condition under which wait() asks the daemon.
WaitGuardRunningOnly(s) == s = STATE_RUNNING
WaitGuard(s) == s \in {STATE_RUNNING, STATE_EXITED}

\* DockerJob.wait (lines 156-164).  timed: a timeout was given; fin: a running
\* container finishes (with exit code `code`) before the wait ends.
wait(timed, fin, code) ==
  LET s == get_status
      q0 == get_status_reqs
  IN IF s \in Errors THEN Raise(s, q0)
     ELSE IF WaitGuard(s)
     THEN IF s = STATE_EXITED
          THEN Out(container, container_id, state, rt, nextId,
                   q0 \o <<Req("wait", container_id, state, "ok")>>,
                   RetCode(rt[container_id].ExitCode))
          ELSE IF fin
          THEN Out(container, container_id, state,
                   SetStatus(rt, container_id, STATE_EXITED, code), nextId,
                   q0 \o <<Req("wait", container_id, state, "ok")>>,
                   RetCode(code))
          ELSE Raise("ReadTimeout",
                     q0 \o <<Req("wait", container_id, state, "ReadTimeout")>>)
     ELSE Out(container, container_id, state, rt, nextId, q0, RetCode(-1))

\* A wait without timeout on a container that never finishes does not return.
WaitReturns(timed, fin) ==
  (get_status = STATE_RUNNING /\ ~fin) => timed

\* DockerJob.get_logs (lines 166-169).
get_logs ==
  IF Truthy(container)
  THEN IF inspect_container(container_id) \in Errors
       THEN Raise(inspect_container(container_id),
                  IF container_id = NoId THEN <<>>
                  ELSE <<Req("logs", container_id, state, "NotFound")>>)
       ELSE Out(container, container_id, state, rt, nextId,
                <<Req("logs", container_id, state, "ok")>>, RetLogs)
  ELSE Out(container, container_id, state, rt, nextId, <<>>, RetNone)

----------------------------------------------------------------------------
InitJob ==
  /\ container = None
  /\ container_id = NoId
  /\ state = STATE_NEW
  /\ rt = [i \in {} |-> [Status |-> STATE_CREATED, ExitCode |-> 0]]
  /\ nextId = 1
  /\ reqs = <<>>
  /\ lastOp = "init"
  /\ ret = RetNone
  /\ pre = [container |-> None, container_id |-> NoId, state |-> STATE_NEW]
  /\ scope = "out"
  /\ job \in [image : JobImages, resource_dir : Dirs, output_dir : Dirs]

----------------------------------------------------------------------------
\* DockerImage (lines 7-40) and the daemon's image store.

\* Images the daemon may hold: an identifier and the set of names tagged on it.
ImageA == [Id |-> "sha256:aa", RepoTags |-> {"golem/base:latest", "golem/base:1.0"}]
ImageB == [Id |-> "sha256:bb", RepoTags |-> {"golem/blender:latest"}]
Stores == SUBSET {ImageA, ImageB}

Repositories == {"golem/base", "golem/blender"}
ImageIds == {NoneStr, "", "sha256:aa", "sha256:bb"}
Tags == {NoneStr, "", "latest", "1.0", "missing"}
\* How the daemon treats one inspect_image request: it answers, the request
\* fails with a generic API error, or the answer carries no metadata.
Faults == {"ok", "APIError", "nometa"}

\* client.inspect_image(key) (lines 20, 22).
inspect_image(store, fault, key) ==
  LET found == {im \in store : im.Id = key \/ key \in im.RepoTags}
  IN IF fault = "APIError" THEN [kind |-> "APIError", Id |-> "", RepoTags |-> {}]
     ELSE IF fault = "nometa" THEN [kind |-> "none", Id |-> "", RepoTags |-> {}]
     ELSE IF found = {} THEN [kind |-> "NotFound", Id |-> "", RepoTags |-> {}]
     ELSE LET im == CHOOSE im \in found : TRUE
          IN [kind |-> "meta", Id |-> im.Id, RepoTags |-> im.RepoTags]

\* DockerImage._check (lines 17-26): "True", "False" or the exception raised.
_check(store, fault, repository, id, tag) ==
  LET name == image_name(repository, tag)
      info == inspect_image(store, fault, IF ~Falsy(id) THEN id ELSE name)
  IN IF info.kind \in {"APIError", "NotFound"} THEN info.kind
     ELSE IF info.kind = "none" THEN "AssertionError"
     ELSE IF name \in info.RepoTags /\ (id = NoneStr \/ info.Id = id)
          THEN "True" ELSE "False"

\* DockerImage.__init__ (lines 9-15): "ok" or the exception raised.
DockerImage(store, fault, repository, id, tag) ==
  LET c == _check(store, fault, repository, id, tag)
  IN IF c = "True" THEN "ok" ELSE IF c = "False" THEN "ValueError" ELSE c

\* line 36: whether is_available treats the tag as specified.
TagSpecifiedTruthy(tag) == ~Falsy(tag)
TagSpecified(tag) == tag # NoneStr

\* DockerImage.is_available (lines 28-40): "True", "False" or the exception
\* that leaves it.  f1, f2: the daemon's treatment of the two inspect_image
\* requests (construction, then the explicit _check).
is_available(store, f1, f2, repository, id, tag) ==
  LET made == DockerImage(store, f1, repository, id, tag)
      out == IF made = "ok" THEN _check(store, f2, repository, id, tag) ELSE made
  IN IF out = "NotFound" THEN "False"
     ELSE IF out = "APIError"
          THEN IF TagSpecified(tag) THEN "False" ELSE "APIError"
     ELSE IF out = "ValueError" THEN "False"
     ELSE out

ImgIdle(store) ==
  [store |-> store, op |-> "none", repository |-> "", id |-> NoneStr,
   tag |-> NoneStr, f1 |-> "ok", f2 |-> "ok", result |-> ""]

Init ==
  /\ InitJob
  /\ img = ImgIdle({ImageA})

CanCreate(outcome) == outcome = "error" \/ nextId <= MaxContainers

\* with job: ... -- __enter__ (lines 134-136).  When __enter__ raises, the
\* with-statement is left without calling __exit__.
Enter ==
  /\ scope # "body"
  /\ \E outcome \in {"ok", "noid", "error"} :
       /\ CanCreate(outcome)
       /\ Apply(_prepare(outcome), "prepare")
       /\ scope' = IF _prepare(outcome).ret.kind = "raised" THEN "aborted" ELSE "body"

\* Leaving the body of the with-statement, normally or by an exception:
\* __exit__ (lines 138-139).
Exit ==
  /\ scope = "body"
  /\ \E exits \in BOOLEAN, code \in ExitCodes :
       Apply(_cleanup(exits, code), "cleanup")
  /\ scope' = "exited"

\* _prepare and _cleanup called directly.
Prepare ==
  /\ \E outcome \in {"ok", "noid", "error"} :
       /\ CanCreate(outcome)
       /\ Apply(_prepare(outcome), "prepare")
  /\ UNCHANGED scope

Cleanup ==
  /\ \E exits \in BOOLEAN, code \in ExitCodes :
       Apply(_cleanup(exits, code), "cleanup")
  /\ UNCHANGED scope

Start ==
  /\ \E fin \in BOOLEAN, code \in ExitCodes : Apply(start(fin, code), "start")
  /\ UNCHANGED scope

Wait ==
  /\ \E timed \in BOOLEAN, fin \in BOOLEAN, code \in ExitCodes :
       /\ WaitReturns(timed, fin)
       /\ Apply(wait(timed, fin, code), "wait")
  /\ UNCHANGED scope

GetLogs ==
  /\ Apply(get_logs, "get_logs")
  /\ UNCHANGED scope

GetStatus ==
  /\ Apply(
       IF get_status \in Errors THEN Raise(get_status, get_status_reqs)
       ELSE Out(container, container_id, state, rt, nextId, get_status_reqs,
                RetStatus(get_status)),
       "get_status")
  /\ UNCHANGED scope

\* The job script of a running container finishes on its own.
RuntimeExit ==
  /\ \E cid \in DOMAIN rt, code \in ExitCodes :
       /\ rt[cid].Status = STATE_RUNNING
       /\ rt' = SetStatus(rt, cid, STATE_EXITED, code)
  /\ reqs' = <<>>
  /\ lastOp' = "runtime_exit"
  /\ ret' = RetNone
  /\ pre' = Driver
  /\ UNCHANGED <<container, container_id, state, nextId, scope, job, img>>

Next ==
  \/ Enter
  \/ Exit
  \/ Prepare
  \/ Cleanup
  \/ Start
  \/ Wait
  \/ GetLogs
  \/ GetStatus
  \/ RuntimeExit

Spec == Init /\ [][Next]_vars

\* The driver used only as a scoped resource: every _prepare and _cleanup
\* call comes from the with-statement.
NextScoped ==
  \/ Enter
  \/ Exit
  \/ Start
  \/ Wait
  \/ GetLogs
  \/ GetStatus
  \/ RuntimeExit

SpecScoped == Init /\ [][NextScoped]_vars

\* DockerImage used on its own: the image store, the arguments and the
\* daemon's treatment of the requests are drawn at the start, then one of the
\* two entry points is called.
InitImage ==
  /\ InitJob
  /\ job.resource_dir = "/host/res"
  /\ job.output_dir = "/host/out"
  /\ img \in [store : Stores, op : {"none"}, repository : Repositories,
              id : ImageIds, tag : Tags, f1 : Faults, f2 : Faults,
              result : {""}]

Construct ==
  /\ img.op = "none"
  /\ img' = [img EXCEPT
               !.op = "construct",
               !.result = DockerImage(img.store, img.f1, img.repository,
                                      img.id, img.tag)]
  /\ UNCHANGED <<container, container_id, state, rt, nextId, reqs, lastOp, ret,
                 pre, scope, job>>

IsAvailable ==
  /\ img.op = "none"
  /\ img' = [img EXCEPT
               !.op = "is_available",
               !.result = is_available(img.store, img.f1, img.f2,
                                       img.repository, img.id, img.tag)]
  /\ UNCHANGED <<container, container_id, state, rt, nextId, reqs, lastOp, ret,
                 pre, scope, job>>

NextImage ==
  \/ Construct
  \/ IsAvailable

SpecImage == InitImage /\ [][NextImage]_vars

TypeOK ==
  /\ container \in {None} \cup {<<i>> : i \in 0 .. MaxContainers}
  /\ container_id \in 0 .. MaxContainers
  /\ state \in States
  /\ DOMAIN rt \subseteq Created
  /\ nextId \in 1 .. MaxContainers + 1
  /\ scope \in {"out", "body", "exited", "aborted"}
  /\ job \in [image : JobImages, resource_dir : Dirs, output_dir : Dirs]

----------------------------------------------------------------------------
\* Helpers for the properties.
HasReq(op) == \E i \in DOMAIN reqs : reqs[i].op = op
CleanupSawRunning ==
  \E i \in DOMAIN reqs : reqs[i].op = "inspect" /\ reqs[i].res = STATE_RUNNING
Rank(s) ==
  CASE s = STATE_NEW -> 0
    [] s = STATE_CREATED -> 1
    [] s = STATE_RUNNING -> 2
    [] s \in {STATE_EXITED, STATE_STOPPED, STATE_KILLED} -> 3
    [] s = STATE_REMOVED -> 4

\* C1: once the with-statement has been left through __exit__, the container
\* the scope held is no longer in the daemon.
C1_ScopeExitRemoves ==
  (scope = "exited" /\ lastOp = "cleanup" /\ pre.container_id # NoId)
    => pre.container_id \notin DOMAIN rt

\* C2: when __enter__ fails after the daemon created the container, the
\* container created by that request is removed from the daemon.
C2_FailedEnterRemoves ==
  (scope = "aborted" /\ lastOp = "prepare")
    => \A i \in DOMAIN reqs :
         reqs[i].op = "create" => reqs[i].id \notin DOMAIN rt

\* C3: a _cleanup call that directly follows a _cleanup call changes neither
\* the driver nor the daemon and sends no request.
C3_CleanupIdempotent ==
  [][(lastOp = "cleanup" /\ lastOp' = "cleanup")
       => (Driver' = Driver /\ rt' = rt /\ reqs' = <<>>)]_vars

\* C4 as claimed: after _cleanup returns, get_status is REMOVED and neither
\* identifier nor handle is retained.
C4_AfterCleanupRemoved ==
  (lastOp = "cleanup" /\ ret.kind # "raised")
    => (get_status = STATE_REMOVED /\ container_id = NoId /\ container = None)

\* C4 as amended: after _cleanup returns, neither identifier nor handle is
\* retained; get_status is REMOVED when a handle existed at the call, and the
\* unchanged cached state (NEW or REMOVED) when none existed.
C4_AfterCleanup ==
  (lastOp = "cleanup" /\ ret.kind # "raised")
    => /\ container = None
       /\ container_id = NoId
       /\ get_status = IF Truthy(pre.container) THEN STATE_REMOVED ELSE pre.state
       /\ get_status \in {STATE_NEW, STATE_REMOVED}

C4_Witness ==
  /\ lastOp = "cleanup"
  /\ ret.kind # "raised"
  /\ Truthy(pre.container)
  /\ HasReq("remove")
  /\ get_status = STATE_REMOVED

\* C5: every _cleanup call made while a handle (with its identifier) exists
\* sends a removal request for that container, clears handle and identifier
\* and leaves the cached state REMOVED.
C5_CleanupAlwaysRemoves ==
  (lastOp = "cleanup" /\ Truthy(pre.container) /\ pre.container_id # NoId)
    => /\ \E i \in DOMAIN reqs :
            reqs[i].op = "remove" /\ reqs[i].id = pre.container_id
       /\ container = None
       /\ container_id = NoId
       /\ state = STATE_REMOVED

\* C6: a _cleanup that saw the container RUNNING sends a kill request, and
\* any removal request it sends comes after the kill, with the cached state
\* KILLED at that moment; a _cleanup that did not see RUNNING sends no kill
\* and the cached state is never KILLED.
C6_KillBeforeRemove ==
  lastOp = "cleanup"
    => IF CleanupSawRunning
       THEN \E k \in DOMAIN reqs :
              /\ reqs[k].op = "kill"
              /\ \A j \in DOMAIN reqs :
                   reqs[j].op = "remove" => (k < j /\ reqs[j].st = STATE_KILLED)
       ELSE /\ ~HasReq("kill")
            /\ \A j \in DOMAIN reqs : reqs[j].st # STATE_KILLED
            /\ state # STATE_KILLED

C6_Witness ==
  /\ lastOp = "cleanup"
  /\ CleanupSawRunning
  /\ \E k, j \in DOMAIN reqs :
       /\ reqs[k].op = "kill" /\ reqs[k].res = "ok"
       /\ reqs[j].op = "remove" /\ reqs[j].st = STATE_KILLED
       /\ k < j

\* C7 as claimed: a handle exists iff the cached state is neither NEW nor
\* REMOVED.
C7_HandleIffCachedState ==
  Truthy(container) <=> state \notin {STATE_NEW, STATE_REMOVED}

\* C7 as amended: a handle exists iff the status get_status reports is
\* neither NEW nor REMOVED; _prepare leaves the cached state as it was.
C7_HandleIffStatus ==
  /\ Truthy(container) <=> get_status \notin {STATE_NEW, STATE_REMOVED}
  /\ lastOp = "prepare" => state = pre.state

C7_Witness ==
  /\ lastOp = "prepare"
  /\ Truthy(container)
  /\ state = STATE_NEW
  /\ get_status = STATE_CREATED

\* C8: the cached state never moves backwards in the order NEW, CREATED,
\* RUNNING, {EXITED, STOPPED, KILLED}, REMOVED; once REMOVED it stays REMOVED
\* and no further container is created.
C8_StateMonotone ==
  [][/\ Rank(state') >= Rank(state)
     /\ state = STATE_REMOVED => (state' = STATE_REMOVED /\ nextId' = nextId)]_vars

\* C9: no operation sends a request naming the identifier of a container
\* that an earlier _cleanup removed.
C9_NoRequestAfterRemoval ==
  [][\A i \in DOMAIN reqs' : reqs'[i].id \notin Removed]_vars

C9_Witness ==
  /\ Removed # {}
  /\ lastOp = "get_status"
  /\ pre.state = STATE_REMOVED
  /\ ~Truthy(pre.container)
  /\ ret = RetStatus(STATE_REMOVED)
  /\ reqs = <<>>

\* C10: a wait that ends while the container is still running returns a
\* value that is not an exit code instead of raising; a following _cleanup
\* that kills the container leaves the cached state REMOVED.
C10_WaitTimeoutSentinel ==
  /\ (/\ lastOp = "wait"
      /\ HasReq("wait")
      /\ container_id \in DOMAIN rt
      /\ rt[container_id].Status = STATE_RUNNING)
       => (ret.kind = "code" /\ ret.code \notin 0 .. 255)
  /\ (/\ lastOp = "cleanup"
      /\ \E k \in DOMAIN reqs : reqs[k].op = "kill" /\ reqs[k].res = "ok")
       => state = STATE_REMOVED

\* The status the last operation obtained from its get_status() call.
ObservedStatus ==
  IF ~Truthy(pre.container) THEN pre.state
  ELSE IF reqs # <<>> /\ reqs[1].op = "inspect" THEN reqs[1].res
  ELSE "NullResource"

\* C11: wait() called with a status other than RUNNING and EXITED returns -1
\* without raising and without a wait request; called with RUNNING or EXITED
\* it sends a wait request and returns the exit code the daemon answers with.
C11_WaitSentinel ==
  (lastOp = "wait" /\ ObservedStatus \notin Errors)
    => IF ObservedStatus \notin {STATE_RUNNING, STATE_EXITED}
       THEN ret = RetCode(-1) /\ ~HasReq("wait")
       ELSE \E i \in DOMAIN reqs :
              /\ reqs[i].op = "wait"
              /\ reqs[i].id = pre.container_id
              /\ reqs[i].res = "ok"
                   => /\ rt[pre.container_id].Status = STATE_EXITED
                      /\ ret = RetCode(rt[pre.container_id].ExitCode)

C11_Witness ==
  /\ lastOp = "wait"
  /\ ObservedStatus = STATE_CREATED
  /\ ret = RetCode(-1)
  /\ ~HasReq("wait")

\* C12: start() called with a status other than CREATED sends no start
\* request, changes neither the driver nor the daemon and returns None; a
\* start request is only sent for a container in status "created", which
\* leaves that status for good, so no container is started twice.
C12_StartNoOp ==
  [][/\ (lastOp' = "start" /\ get_status \notin (Errors \cup {STATE_CREATED}))
          => /\ \A i \in DOMAIN reqs' : reqs'[i].op # "start"
             /\ Driver' = Driver
             /\ rt' = rt
             /\ ret' = RetNone
     /\ \A i \in DOMAIN reqs' :
          reqs'[i].op = "start"
            => /\ reqs'[i].id \in DOMAIN rt
               /\ rt[reqs'[i].id].Status = STATE_CREATED
     /\ \A cid \in DOMAIN rt \cap DOMAIN rt' :
          rt[cid].Status # STATE_CREATED => rt'[cid].Status # STATE_CREATED]_vars

C12_Witness ==
  /\ lastOp = "start"
  /\ ObservedStatus \in {STATE_RUNNING, STATE_EXITED}
  /\ ret = RetNone
  /\ ~HasReq("start")

C18_StartCachesStatus ==
  (lastOp = "start" /\ ObservedStatus = STATE_CREATED)
    => /\ Len(reqs) = 3
       /\ reqs[2].op = "start" /\ reqs[2].id = container_id
       /\ reqs[3].op = "inspect" /\ reqs[3].id = container_id
       /\ ret = RetResult(reqs[3].res)
       /\ state = ret.status
       /\ state = rt[container_id].Status
       /\ state \in {STATE_RUNNING, STATE_EXITED}

C18_Witness ==
  /\ lastOp = "start"
  /\ ObservedStatus = STATE_CREATED
  /\ ret = RetResult(STATE_EXITED)
  /\ state = STATE_EXITED

\* C19: the driver never replaces a handle whose container is still in the
\* daemon, so every container it created is its current one or removed.
C19_NoOrphan ==
  [][(Truthy(container) /\ container_id \in DOMAIN rt /\ container' # container)
       => container_id \notin DOMAIN rt']_vars

\* C20: between operations the handle is present iff the identifier is.
C20_HandleIffId ==
  Truthy(container) <=> container_id # NoId

\* C17: every creation request has networking disabled, names the job's
\* image, binds the resource directory read-only at /golem/resources/ and the
\* output directory read-write at /golem/output/, and binds nothing else.
C17_CreateRequestIsolated ==
  \A i \in DOMAIN reqs :
    reqs[i].op = "create"
      => /\ reqs[i].args.network_disabled
         /\ reqs[i].args.image = job.image
         /\ DOMAIN reqs[i].args.binds = {job.resource_dir, job.output_dir}
         /\ reqs[i].args.binds[job.resource_dir] =
              [bind |-> RESOURCES_DIR, mode |-> "ro"]
         /\ reqs[i].args.binds[job.output_dir] =
              [bind |-> OUTPUT_DIR, mode |-> "rw"]

\* The daemon's answer to the first inspect_image request of the last
\* DockerImage call, and the name the call computed.
ImgKey == IF ~Falsy(img.id) THEN img.id ELSE image_name(img.repository, img.tag)
ImgAnswer == inspect_image(img.store, img.f1, ImgKey)
ImgFullName ==
  img.repository \o ":" \o (IF img.tag \in {NoneStr, ""} THEN "latest" ELSE img.tag)

\* C14: absent a runtime error, construction fails with the validation error
\* exactly when the daemon returns no metadata, the name is not in the tag
\* set, or an id is given and differs from the reported one; otherwise it
\* succeeds.
C14_ConstructValidation ==
  (img.op = "construct" /\ ImgAnswer.kind \in {"meta", "none"})
    => LET invalid ==
             \/ ImgAnswer.kind = "none"
             \/ ImgFullName \notin ImgAnswer.RepoTags
             \/ (img.id # NoneStr /\ img.id # ImgAnswer.Id)
       IN img.result = IF invalid THEN "ValueError" ELSE "ok"

\* C15: is_available with a tag given returns a boolean and never raises; it
\* returns false when the daemon does not report a matching image.
C15_ProbeNeverRaises ==
  (img.op = "is_available" /\ img.tag # NoneStr)
    => /\ img.result \in {"True", "False"}
       /\ (\/ ImgAnswer.kind # "meta"
           \/ ImgFullName \notin ImgAnswer.RepoTags
           \/ (img.id # NoneStr /\ img.id # ImgAnswer.Id))
            => img.result = "False"

\* C16: when the daemon fails an inspect_image request of is_available with a
\* generic API error, the result is false if a tag was given and the error
\* propagates if none was; "not found" gives false either way.
C16_ProbeApiErrorAsymmetry ==
  img.op = "is_available"
    => /\ ImgAnswer.kind = "NotFound" => img.result = "False"
       /\ (\/ ImgAnswer.kind = "APIError"
           \/ (/\ DockerImage(img.store, img.f1, img.repository, img.id, img.tag) = "ok"
               /\ img.f2 = "APIError"))
            => img.result = IF img.tag # NoneStr THEN "False" ELSE "APIError"
       /\ img.result = "APIError" => img.tag = NoneStr

C16_Witness ==
  /\ img.op = "is_available"
  /\ img.tag = ""
  /\ ImgAnswer.kind = "APIError"
  /\ img.result = "False"
====
